---- MODULE Spec2Model ----
(***************************************************************************)
(* Model of src/main.py: the four TomTom request builders                  *)
(* (calculate_route, calculate_reachable_range, batch_routing,             *)
(* matrix_routing) and the Streamlit script that calls them.               *)
(*                                                                         *)
(* Conventions.                                                            *)
(*  - A Python dict is a TLA+ function whose domain is its set of keys.    *)
(*  - A Python str is a TLA+ string; f-strings and str.join are built with *)
(*    \o, as the code builds them.                                         *)
(*  - A Python number (the floats and ints of st.number_input) is written  *)
(*    as its repr text ("42.37806", "3600", "10.0"); Python's None is the  *)
(*    value None below, which is no repr of a number.                      *)
(*  - The text produced by json.dumps is represented by the value it       *)
(*    encodes (json.dumps is one-to-one on str-keyed dicts and lists).     *)
(*  - A value a function returns is kept in a sequence `ret`: <<v>> when   *)
(*    the function returned v, <<>> when it returned nothing (it raised).  *)
(***************************************************************************)
EXTENDS Integers, Sequences, FiniteSets, TLC

VARIABLES
    api_key,                  \* sidebar text_input (line 121)
    route_representation,     \* sidebar selectbox (line 124)
    compute_travel_time_for,  \* sidebar selectbox (line 125)
    route_type,               \* sidebar selectbox (line 126)
    traffic,                  \* sidebar selectbox (line 127)
    avoid,                    \* sidebar multiselect, in selection order (line 128)
    num_routes,               \* tab3 number_input (line 193)
    num_origins,              \* tab4 number_input (line 225)
    num_destinations,         \* tab4 number_input (line 239)
    edits,                    \* number of widget edits made in this session
    run                       \* what the last execution did (see NoRun)

widgets == <<api_key, route_representation, compute_travel_time_for, route_type,
             traffic, avoid, num_routes, num_origins, num_destinations>>
vars == <<widgets, edits, run>>

----------------------------------------------------------------------------
(* Bounds and program constants *)

\* A session makes at most MaxEdits widget edits (button presses are not counted).
MaxEdits == 2

\* max_value of the three count inputs (lines 193, 225, 239)
MaxPoints == 5

None == "<None>"
EmptyDict == <<>>

DefaultKey == "kpcAP1yx7CaBHvUyfez9WySoKdWnWW6V"

RouteRepresentationOptions == <<"summaryOnly", "polyline", "none">>
ComputeTravelTimeForOptions == <<"all", "none", "allExceptBlocked">>
RouteTypeOptions == <<"fastest", "shortest", "eco", "thrilling">>
TrafficOptions == <<"true", "false">>
AvoidOptions == <<"unpavedRoads", "tollRoads", "motorways", "ferries", "carpools">>

Range(s) == {s[i] : i \in DOMAIN s}

OptionFields == {"routeRepresentation", "computeTravelTimeFor", "routeType", "traffic", "avoid"}
BudgetFields == {"timeBudgetInSec", "distanceBudgetInMeters", "fuelBudgetInLiters"}

\* default values of the coordinate number_inputs (lines 147-151, 168-169, 199-207, 231-248)
DefaultStartLat == "42.37806"
DefaultStartLon == "-87.94427"
DefaultEndLat == "42.39081"
DefaultEndLon == "-87.95857"
\* default values of the budget number_inputs (lines 170-172)
DefaultTimeBudget == "3600"
DefaultDistanceBudget == "10000"
DefaultFuelBudget == "10.0"

----------------------------------------------------------------------------
(* The HTTP collaborator: what a call of requests.get / requests.post can do *)

JsonBody == "{\"routes\": []}"
EmptyJsonBody == "{}"
HtmlBody == "<html>Error</html>"

\* A response with a body, or a network-level failure raising an exception.
Responses ==
    {[kind |-> "ok", text |-> t] : t \in {JsonBody, EmptyJsonBody, HtmlBody}}
        \cup {[kind |-> "fail", exc |-> "ConnectionError"]}

\* response.json(): the decoded value, or JSONDecodeError.
json_loads(text) ==
    CASE text = JsonBody -> [ok |-> TRUE, value |-> [routes |-> <<>>]]
      [] text = EmptyJsonBody -> [ok |-> TRUE, value |-> EmptyDict]
      [] OTHER -> [ok |-> FALSE]

\* requests encodes `params` into the query string and leaves out every key
\* whose value is None.
encode_params(params) ==
    [k \in {f \in DOMAIN params : params[f] # None} |-> params[k]]

Prepared(req) ==
    IF "params" \in DOMAIN req
    THEN req @@ [query |-> encode_params(req.params)]
    ELSE req @@ [query |-> EmptyDict]

\* mutant: a network failure is swallowed and an empty mapping returned
SendAndDecode_swallow(req, resp, label) ==
    IF resp.kind = "fail"
    THEN [http |-> <<Prepared(req)>>, response |-> <<resp>>, outcome |-> "returned",
          ret |-> <<EmptyDict>>, exc |-> "none", errors |-> <<>>]
    ELSE [http |-> <<Prepared(req)>>, response |-> <<resp>>, outcome |-> "returned",
          ret |-> <<IF json_loads(resp.text).ok THEN json_loads(resp.text).value ELSE EmptyDict>>,
          exc |-> "none", errors |-> <<>>]

\* mutant: the call is issued a second time when the body does not decode
SendAndDecode_retry(req, resp, label) ==
    IF resp.kind = "fail"
    THEN [http |-> <<Prepared(req)>>, response |-> <<resp>>, outcome |-> "raised",
          ret |-> <<>>, exc |-> resp.exc, errors |-> <<>>]
    ELSE IF json_loads(resp.text).ok
    THEN [http |-> <<Prepared(req)>>, response |-> <<resp>>, outcome |-> "returned",
          ret |-> <<json_loads(resp.text).value>>, exc |-> "none", errors |-> <<>>]
    ELSE [http |-> <<Prepared(req), Prepared(req)>>, response |-> <<resp, resp>>,
          outcome |-> "returned", ret |-> <<EmptyDict>>, exc |-> "none", errors |-> <<>>]

\* The tail shared by the four builders (lines 24-30, 44-50, 74-80, 102-108):
\* one requests call outside the try, then response.json() inside it; on
\* JSONDecodeError two st.error messages and `return {}`. The exception that
\* response.json() raises is taken to be a json.JSONDecodeError, as it is with
\* requests on the standard json module, so that the except clause catches it.
SendAndDecode(req, resp, label) ==
    IF resp.kind = "fail"
    THEN [http |-> <<Prepared(req)>>, response |-> <<resp>>, outcome |-> "raised",
          ret |-> <<>>, exc |-> resp.exc, errors |-> <<>>]
    ELSE IF json_loads(resp.text).ok
    THEN [http |-> <<Prepared(req)>>, response |-> <<resp>>, outcome |-> "returned",
          ret |-> <<json_loads(resp.text).value>>, exc |-> "none", errors |-> <<>>]
    ELSE [http |-> <<Prepared(req)>>, response |-> <<resp>>, outcome |-> "returned",
          ret |-> <<EmptyDict>>, exc |-> "none",
          errors |-> <<"Failed to decode JSON response for " \o label \o ". Raw response:",
                       resp.text>>]

----------------------------------------------------------------------------
(* The builders *)

\* dict.get(key, default)
get(d, k, default) == IF k \in DOMAIN d THEN d[k] ELSE default

\* mutant: a wrong default for a missing field
options_params_wrongdefault(route_params, key) ==
    [routeRepresentation |-> get(route_params, "routeRepresentation", "summaryOnly"),
     computeTravelTimeFor |-> get(route_params, "computeTravelTimeFor", "all"),
     routeType |-> get(route_params, "routeType", "fastest"),
     traffic |-> get(route_params, "traffic", "false"),
     avoid |-> get(route_params, "avoid", "unpavedRoads"),
     key |-> key]

\* The dict literal of lines 16-23, repeated at lines 63-70 and 94-101.
options_params(route_params, key) ==
    [routeRepresentation |-> get(route_params, "routeRepresentation", "summaryOnly"),
     computeTravelTimeFor |-> get(route_params, "computeTravelTimeFor", "all"),
     routeType |-> get(route_params, "routeType", "fastest"),
     traffic |-> get(route_params, "traffic", "true"),
     avoid |-> get(route_params, "avoid", "unpavedRoads"),
     key |-> key]

calculate_route(key, start_coords, end_coords, route_params, resp) ==
    LET url == "https://api.tomtom.com/routing/1/calculateRoute/"
                   \o start_coords \o ":" \o end_coords \o "/json"
        params == options_params(route_params, key)
    IN  [invoked |-> <<"calculate_route">>,
         args |-> [api_key |-> key, start_coords |-> start_coords,
                   end_coords |-> end_coords, route_params |-> route_params]]
        @@ SendAndDecode([method |-> "GET", url |-> url, params |-> params],
                         resp, "Single Route")

\* mutant: a missing budget is sent as zero
calculate_reachable_range_zero(key, origin, budgets, resp) ==
    LET url == "https://api.tomtom.com/routing/1/calculateReachableRange/"
                   \o origin \o "/json"
        params == [timeBudgetInSec |-> get(budgets, "timeBudgetInSec", "0"),
                   distanceBudgetInMeters |-> get(budgets, "distanceBudgetInMeters", "0"),
                   fuelBudgetInLiters |-> get(budgets, "fuelBudgetInLiters", "0"),
                   key |-> key]
    IN  [invoked |-> <<"calculate_reachable_range">>,
         args |-> [api_key |-> key, origin |-> origin, budgets |-> budgets]]
        @@ SendAndDecode([method |-> "POST", url |-> url, params |-> params],
                         resp, "Reachable Range")

calculate_reachable_range(key, origin, budgets, resp) ==
    LET url == "https://api.tomtom.com/routing/1/calculateReachableRange/"
                   \o origin \o "/json"
        params == [timeBudgetInSec |-> get(budgets, "timeBudgetInSec", None),
                   distanceBudgetInMeters |-> get(budgets, "distanceBudgetInMeters", None),
                   fuelBudgetInLiters |-> get(budgets, "fuelBudgetInLiters", None),
                   key |-> key]
    IN  [invoked |-> <<"calculate_reachable_range">>,
         args |-> [api_key |-> key, origin |-> origin, budgets |-> budgets]]
        @@ SendAndDecode([method |-> "POST", url |-> url, params |-> params],
                         resp, "Reachable Range")

\* the loop of lines 59-72: one item appended per (start_coords, end_coords)
RECURSIVE batch_items(_, _, _)
batch_items(routes, route_params, key) ==
    IF routes = <<>>
    THEN <<>>
    ELSE <<[query |-> "/routing/1/calculateRoute/" \o Head(routes)[1] \o ":"
                          \o Head(routes)[2] \o "/json",
            params |-> options_params(route_params, key)]>>
         \o batch_items(Tail(routes), route_params, key)

\* mutant: each item is inserted at the front of the list
RECURSIVE batch_items_front(_, _, _)
batch_items_front(routes, route_params, key) ==
    IF routes = <<>>
    THEN <<>>
    ELSE batch_items_front(Tail(routes), route_params, key)
         \o <<[query |-> "/routing/1/calculateRoute/" \o Head(routes)[1] \o ":"
                             \o Head(routes)[2] \o "/json",
               params |-> options_params(route_params, key)]>>

batch_routing_front(key, routes, route_params, resp) ==
    [invoked |-> <<"batch_routing">>,
     args |-> [api_key |-> key, routes |-> routes, route_params |-> route_params]]
    @@ SendAndDecode([method |-> "POST",
                      url |-> "https://api.tomtom.com/routing/1/batch/sync/json",
                      headers |-> ("Content-Type" :> "application/json"),
                      data |-> [batchItems |-> batch_items_front(routes, route_params, key)]],
                     resp, "Batch Routing")

batch_routing(key, routes, route_params, resp) ==
    [invoked |-> <<"batch_routing">>,
     args |-> [api_key |-> key, routes |-> routes, route_params |-> route_params]]
    @@ SendAndDecode([method |-> "POST",
                      url |-> "https://api.tomtom.com/routing/1/batch/sync/json",
                      headers |-> ("Content-Type" :> "application/json"),
                      data |-> [batchItems |-> batch_items(routes, route_params, key)]],
                     resp, "Batch Routing")

\* mutant: latitude and longitude swapped
matrix_routing_swapped(key, origins, destinations, route_params, resp) ==
    LET data == [origins |-> [i \in 1..Len(origins) |->
                                 [point |-> [latitude |-> origins[i][2],
                                             longitude |-> origins[i][1]]]],
                 destinations |-> [i \in 1..Len(destinations) |->
                                 [point |-> [latitude |-> destinations[i][2],
                                             longitude |-> destinations[i][1]]]]]
    IN  [invoked |-> <<"matrix_routing">>,
         args |-> [api_key |-> key, origins |-> origins, destinations |-> destinations,
                   route_params |-> route_params]]
        @@ SendAndDecode([method |-> "POST",
                          url |-> "https://api.tomtom.com/routing/1/matrix/sync/json",
                          headers |-> ("Content-Type" :> "application/json"),
                          params |-> options_params(route_params, key),
                          json |-> data],
                         resp, "Matrix Routing")

\* o[0], o[1] of the Python tuples are o[1], o[2] here
matrix_routing(key, origins, destinations, route_params, resp) ==
    LET data == [origins |-> [i \in 1..Len(origins) |->
                                 [point |-> [latitude |-> origins[i][1],
                                             longitude |-> origins[i][2]]]],
                 destinations |-> [i \in 1..Len(destinations) |->
                                 [point |-> [latitude |-> destinations[i][1],
                                             longitude |-> destinations[i][2]]]]]
    IN  [invoked |-> <<"matrix_routing">>,
         args |-> [api_key |-> key, origins |-> origins, destinations |-> destinations,
                   route_params |-> route_params]]
        @@ SendAndDecode([method |-> "POST",
                          url |-> "https://api.tomtom.com/routing/1/matrix/sync/json",
                          headers |-> ("Content-Type" :> "application/json"),
                          params |-> options_params(route_params, key),
                          json |-> data],
                         resp, "Matrix Routing")

----------------------------------------------------------------------------
(* The Streamlit script (lines 115-258): one execution per user interaction *)

\* what an execution did: the button that was pressed, the builders invoked and
\* their arguments, the HTTP requests sent and the responses received, how the
\* builder ended, the st.error messages and the result that was rendered
NoRun ==
    [button |-> "none", invoked |-> <<>>, args |-> EmptyDict, http |-> <<>>,
     response |-> <<>>, outcome |-> "none", ret |-> <<>>, exc |-> "none",
     errors |-> <<>>, shown |-> <<>>]

\* str.join
RECURSIVE join(_, _)
join(sep, items) ==
    IF items = <<>> THEN ""
    ELSE IF Len(items) = 1 THEN items[1]
    ELSE items[1] \o sep \o join(sep, Tail(items))

\* mutant: an empty selection falls back to the default avoidance
common_params_fallback ==
    [routeRepresentation |-> route_representation,
     computeTravelTimeFor |-> compute_travel_time_for,
     routeType |-> route_type,
     traffic |-> traffic,
     avoid |-> IF avoid # <<>> THEN join(",", avoid) ELSE "unpavedRoads"]

common_params ==
    [routeRepresentation |-> route_representation,
     computeTravelTimeFor |-> compute_travel_time_for,
     routeType |-> route_type,
     traffic |-> traffic,
     avoid |-> IF avoid # <<>> THEN join(",", avoid) ELSE ""]

\* mutant: the handler does not look at the key
Truthy_always(s) == TRUE

\* `if api_key:` (lines 154, 175, 211, 253): a str is true unless it is empty
Truthy(s) == s # ""

\* The body of a button's `if` (lines 154-161 and its three copies): the
\* builder's result under a subheader, or the error message when the key is
\* empty. An exception of the builder ends the execution before anything is shown.
Handler(button, built, heading) ==
    IF Truthy(api_key)
    THEN [button |-> button,
          shown |-> IF built.outcome = "returned" THEN <<heading, built.ret[1]>> ELSE <<>>]
         @@ built
    ELSE [button |-> button,
          errors |-> <<"Please enter your API Key in the sidebar.">>]
         @@ NoRun

\* tab3's loop (lines 194-208) and tab4's loops (lines 227-236, 241-250), with
\* the number_inputs at their default values
batch_routes ==
    [i \in 1..num_routes |->
        <<DefaultStartLat \o "," \o DefaultStartLon, DefaultEndLat \o "," \o DefaultEndLon>>]
origins == [i \in 1..num_origins |-> <<DefaultStartLat, DefaultStartLon>>]
destinations == [i \in 1..num_destinations |-> <<DefaultEndLat, DefaultEndLon>>]

CalculateSingleRoute ==
    /\ \E resp \in Responses :
          run' = Handler("Calculate Single Route",
                         calculate_route(api_key,
                                         DefaultStartLat \o "," \o DefaultStartLon,
                                         DefaultEndLat \o "," \o DefaultEndLon,
                                         common_params, resp),
                         "Single Route Result")
    /\ UNCHANGED <<widgets, edits>>

CalculateReachableRange ==
    /\ \E resp \in Responses :
          run' = Handler("Calculate Reachable Range",
                         calculate_reachable_range(
                             api_key,
                             DefaultStartLat \o "," \o DefaultStartLon,
                             [timeBudgetInSec |-> DefaultTimeBudget,
                              distanceBudgetInMeters |-> DefaultDistanceBudget,
                              fuelBudgetInLiters |-> DefaultFuelBudget],
                             resp),
                         "Reachable Range Result")
    /\ UNCHANGED <<widgets, edits>>

CalculateBatchRoutes ==
    /\ \E resp \in Responses :
          run' = Handler("Calculate Batch Routes",
                         batch_routing(api_key, batch_routes, common_params, resp),
                         "Batch Routing Result")
    /\ UNCHANGED <<widgets, edits>>

CalculateMatrixRouting ==
    /\ \E resp \in Responses :
          run' = Handler("Calculate Matrix Routing",
                         matrix_routing(api_key, origins, destinations, common_params, resp),
                         "Matrix Routing Result")
    /\ UNCHANGED <<widgets, edits>>

(* Widget edits: each one re-executes the script with no button pressed, so  *)
(* nothing is sent and nothing of the previous execution stays on the page.  *)

TypedKeys == {"", DefaultKey, "another-key"}

EnterApiKey ==
    /\ edits < MaxEdits
    /\ \E k \in TypedKeys \ {api_key} : api_key' = k
    /\ edits' = edits + 1
    /\ run' = NoRun
    /\ UNCHANGED <<route_representation, compute_travel_time_for, route_type, traffic,
                   avoid, num_routes, num_origins, num_destinations>>

SelectRouteRepresentation ==
    /\ edits < MaxEdits
    /\ \E v \in Range(RouteRepresentationOptions) \ {route_representation} :
          route_representation' = v
    /\ edits' = edits + 1
    /\ run' = NoRun
    /\ UNCHANGED <<api_key, compute_travel_time_for, route_type, traffic,
                   avoid, num_routes, num_origins, num_destinations>>

SelectComputeTravelTimeFor ==
    /\ edits < MaxEdits
    /\ \E v \in Range(ComputeTravelTimeForOptions) \ {compute_travel_time_for} :
          compute_travel_time_for' = v
    /\ edits' = edits + 1
    /\ run' = NoRun
    /\ UNCHANGED <<api_key, route_representation, route_type, traffic,
                   avoid, num_routes, num_origins, num_destinations>>

SelectRouteType ==
    /\ edits < MaxEdits
    /\ \E v \in Range(RouteTypeOptions) \ {route_type} : route_type' = v
    /\ edits' = edits + 1
    /\ run' = NoRun
    /\ UNCHANGED <<api_key, route_representation, compute_travel_time_for, traffic,
                   avoid, num_routes, num_origins, num_destinations>>

SelectTraffic ==
    /\ edits < MaxEdits
    /\ \E v \in Range(TrafficOptions) \ {traffic} : traffic' = v
    /\ edits' = edits + 1
    /\ run' = NoRun
    /\ UNCHANGED <<api_key, route_representation, compute_travel_time_for, route_type,
                   avoid, num_routes, num_origins, num_destinations>>

\* the multiselect appends a newly selected reason and removes a deselected one
SelectAvoid ==
    /\ edits < MaxEdits
    /\ \E r \in Range(AvoidOptions) :
          avoid' = IF r \in Range(avoid)
                   THEN SelectSeq(avoid, LAMBDA x : x # r)
                   ELSE Append(avoid, r)
    /\ edits' = edits + 1
    /\ run' = NoRun
    /\ UNCHANGED <<api_key, route_representation, compute_travel_time_for, route_type,
                   traffic, num_routes, num_origins, num_destinations>>

SetNumRoutes ==
    /\ edits < MaxEdits
    /\ \E n \in (1..MaxPoints) \ {num_routes} : num_routes' = n
    /\ edits' = edits + 1
    /\ run' = NoRun
    /\ UNCHANGED <<api_key, route_representation, compute_travel_time_for, route_type,
                   traffic, avoid, num_origins, num_destinations>>

SetNumOrigins ==
    /\ edits < MaxEdits
    /\ \E n \in (1..MaxPoints) \ {num_origins} : num_origins' = n
    /\ edits' = edits + 1
    /\ run' = NoRun
    /\ UNCHANGED <<api_key, route_representation, compute_travel_time_for, route_type,
                   traffic, avoid, num_routes, num_destinations>>

SetNumDestinations ==
    /\ edits < MaxEdits
    /\ \E n \in (1..MaxPoints) \ {num_destinations} : num_destinations' = n
    /\ edits' = edits + 1
    /\ run' = NoRun
    /\ UNCHANGED <<api_key, route_representation, compute_travel_time_for, route_type,
                   traffic, avoid, num_routes, num_origins>>

\* the state of a fresh session: every widget at its default, nothing executed
Init ==
    /\ api_key = DefaultKey
    /\ route_representation = RouteRepresentationOptions[1]
    /\ compute_travel_time_for = ComputeTravelTimeForOptions[1]
    /\ route_type = RouteTypeOptions[1]
    /\ traffic = TrafficOptions[1]
    /\ avoid = <<>>
    /\ num_routes = 1
    /\ num_origins = 1
    /\ num_destinations = 1
    /\ edits = 0
    /\ run = NoRun

NextApp ==
    \/ CalculateSingleRoute
    \/ CalculateReachableRange
    \/ CalculateBatchRoutes
    \/ CalculateMatrixRouting
    \/ EnterApiKey
    \/ SelectRouteRepresentation
    \/ SelectComputeTravelTimeFor
    \/ SelectRouteType
    \/ SelectTraffic
    \/ SelectAvoid
    \/ SetNumRoutes
    \/ SetNumOrigins
    \/ SetNumDestinations

SpecApp == Init /\ [][NextApp]_vars

----------------------------------------------------------------------------
(* The builders as the four functions a caller can invoke with any arguments. *)
(* They keep no state between invocations, so a behaviour is one invocation.  *)

ApiKeys == {"", DefaultKey}

CoordTexts == {DefaultStartLat \o "," \o DefaultStartLon,
               DefaultEndLat \o "," \o DefaultEndLon}

\* the values a field of route_params takes when it is present
PresentValues ==
    [routeRepresentation |-> {"polyline"},
     computeTravelTimeFor |-> {"none"},
     routeType |-> {"shortest"},
     traffic |-> {"false"},
     avoid |-> {"", "tollRoads,motorways"}]

PartialOptions ==
    UNION {{f \in [S -> UNION {PresentValues[k] : k \in OptionFields}] :
               \A k \in S : f[k] \in PresentValues[k]} : S \in SUBSET OptionFields}

PartialBudgets == UNION {[S -> {"0", "3600"}] : S \in SUBSET BudgetFields}

RoutePairs == {<<a, b>> : a \in CoordTexts, b \in CoordTexts} \ {<<a, a>> : a \in CoordTexts}

RouteLists == UNION {[1..n -> RoutePairs] : n \in 1..MaxPoints}

CoordPool == << <<DefaultStartLat, DefaultStartLon>>,
                <<DefaultEndLat, DefaultEndLon>>,
                <<"-33.86882", "151.20929">> >>

\* lists of 1..MaxPoints coordinates that walk round the pool from any start
CoordLists ==
    {[i \in 1..n |-> CoordPool[((s + i) % Len(CoordPool)) + 1]] :
        n \in 1..MaxPoints, s \in 0..(Len(CoordPool) - 1)}

InvokeCalculateRoute ==
    /\ run = NoRun
    /\ \E key \in ApiKeys, s \in CoordTexts, e \in CoordTexts,
          rp \in PartialOptions, resp \in Responses :
          run' = calculate_route(key, s, e, rp, resp) @@ NoRun
    /\ UNCHANGED <<widgets, edits>>

InvokeCalculateReachableRange ==
    /\ run = NoRun
    /\ \E key \in ApiKeys, o \in CoordTexts, b \in PartialBudgets, resp \in Responses :
          run' = calculate_reachable_range(key, o, b, resp) @@ NoRun
    /\ UNCHANGED <<widgets, edits>>

InvokeBatchRouting ==
    /\ run = NoRun
    /\ \E key \in ApiKeys, rs \in RouteLists, rp \in PartialOptions, resp \in Responses :
          run' = batch_routing(key, rs, rp, resp) @@ NoRun
    /\ UNCHANGED <<widgets, edits>>

InvokeMatrixRouting ==
    /\ run = NoRun
    /\ \E key \in ApiKeys, os \in CoordLists, ds \in CoordLists,
          rp \in PartialOptions, resp \in Responses :
          run' = matrix_routing(key, os, ds, rp, resp) @@ NoRun
    /\ UNCHANGED <<widgets, edits>>

Next ==
    \/ InvokeCalculateRoute
    \/ InvokeCalculateReachableRange
    \/ InvokeBatchRouting
    \/ InvokeMatrixRouting

Spec == Init /\ [][Next]_vars

----------------------------------------------------------------------------
(* Properties *)

Invoked(name) == run.invoked = <<name>>

DefaultOptions ==
    [routeRepresentation |-> "summaryOnly", computeTravelTimeFor |-> "all",
     routeType |-> "fastest", traffic |-> "true", avoid |-> "unpavedRoads"]

\* a partial route-options input completed with the defaults, plus the key
Completed(rp, key) ==
    [k \in OptionFields \cup {"key"} |->
        IF k = "key" THEN key ELSE IF k \in DOMAIN rp THEN rp[k] ELSE DefaultOptions[k]]

\* items[1], then "," and items[i] for each further i up to n
RECURSIVE CommaJoined(_, _)
CommaJoined(items, n) ==
    IF n = 0 THEN ""
    ELSE IF n = 1 THEN items[1]
    ELSE CommaJoined(items, n - 1) \o "," \o items[n]

DecodeFailure(raw) == [DecodeFailure |-> raw]

NonJson(resp) == resp.kind = "ok" /\ ~json_loads(resp.text).ok

\* C1: a builder invoked with an empty API key ends in a MissingCredential
\* error and makes no HTTP call.
C1_EmptyKeyRaisesBeforeAnyCall ==
    (run.invoked # <<>> /\ run.args.api_key = "")
        => (run.outcome = "raised" /\ run.exc = "MissingCredential" /\ run.http = <<>>)

\* C2: while the API key is the empty string no HTTP request is issued and no
\* builder is invoked; a button press then produces only the
\* 'Please enter your API Key' error.
C2_NoRequestWithoutKey ==
    api_key = ""
        => /\ run.http = <<>>
           /\ run.invoked = <<>>
           /\ run.shown = <<>>
           /\ run.button # "none"
                => run.errors = <<"Please enter your API Key in the sidebar.">>

C2_Witness == api_key = "" /\ run.button = "Calculate Batch Routes"

\* C3 (as stated): the parameters built by calculate_reachable_range have
\* exactly the present budget fields and the key as their keys.
C3_AbsentBudgetIsNoKey ==
    Invoked("calculate_reachable_range")
        => DOMAIN run.http[1].params = DOMAIN run.args.budgets \cup {"key"}

\* C3 (amended): the params mapping built by calculate_reachable_range has the
\* three budget names and the key as its keys; a present budget keeps its
\* value and an absent one is mapped to None, never to zero; the query that is
\* sent has exactly the present budgets and the key, with their values.
C3_AbsentBudgetIsNoneAndNotSent ==
    Invoked("calculate_reachable_range")
        => LET p == run.http[1].params
               q == run.http[1].query
               b == run.args.budgets
           IN  /\ DOMAIN p = BudgetFields \cup {"key"}
               /\ p["key"] = run.args.api_key
               /\ \A f \in BudgetFields :
                     IF f \in DOMAIN b THEN p[f] = b[f] ELSE p[f] = None
               /\ DOMAIN q = DOMAIN b \cup {"key"}
               /\ q["key"] = run.args.api_key
               /\ \A f \in DOMAIN b : q[f] = b[f]

C3_Witness ==
    /\ Invoked("calculate_reachable_range")
    /\ DOMAIN run.args.budgets = {"distanceBudgetInMeters"}
    /\ run.args.budgets["distanceBudgetInMeters"] = "3600"

\* C4: when the response body is not JSON the builder returns normally and the
\* value it returns is a DecodeFailure carrying the raw response text.
C4_DecodeFailureCarriesRawText ==
    (run.invoked # <<>> /\ NonJson(run.response[1]))
        => /\ run.outcome = "returned"
           /\ run.ret = <<DecodeFailure(run.response[1].text)>>

\* C5: batch_routing sends one POST whose batchItems has one entry per pair, in
\* input order, the i-th query being the route path of the i-th pair and every
\* entry's params being the shared route options together with the key.
C5_BatchItemsFollowRoutes ==
    Invoked("batch_routing")
        => LET items == run.http[1].data.batchItems
               routes == run.args.routes
               rp == run.args.route_params
           IN  /\ Len(run.http) = 1
               /\ run.http[1].method = "POST"
               /\ DOMAIN run.http[1].data = {"batchItems"}
               /\ Len(items) = Len(routes)
               /\ \A i \in 1..Len(routes) :
                     /\ items[i].query = "/routing/1/calculateRoute/" \o routes[i][1]
                                             \o ":" \o routes[i][2] \o "/json"
                     /\ DOMAIN items[i].params = OptionFields \cup {"key"}
                     /\ items[i].params["key"] = run.args.api_key
                     /\ \A k \in DOMAIN rp : items[i].params[k] = rp[k]
                     /\ items[i].params = items[1].params

C5_Witness ==
    /\ Invoked("batch_routing")
    /\ Len(run.args.routes) = MaxPoints
    /\ run.args.routes[1] # run.args.routes[2]
    /\ DOMAIN run.args.route_params = OptionFields

\* C6: matrix_routing's body has one {point: {latitude, longitude}} entry per
\* origin and per destination, in input order and not swapped; the route
\* options and the key are query parameters and are not in the body.
C6_MatrixBodyFollowsPoints ==
    Invoked("matrix_routing")
        => LET req == run.http[1]
               os == run.args.origins
               ds == run.args.destinations
           IN  /\ Len(run.http) = 1
               /\ DOMAIN req.json = {"origins", "destinations"}
               /\ Len(req.json.origins) = Len(os)
               /\ Len(req.json.destinations) = Len(ds)
               /\ \A i \in 1..Len(os) :
                     /\ DOMAIN req.json.origins[i] = {"point"}
                     /\ DOMAIN req.json.origins[i].point = {"latitude", "longitude"}
                     /\ req.json.origins[i].point.latitude = os[i][1]
                     /\ req.json.origins[i].point.longitude = os[i][2]
               /\ \A i \in 1..Len(ds) :
                     /\ DOMAIN req.json.destinations[i] = {"point"}
                     /\ DOMAIN req.json.destinations[i].point = {"latitude", "longitude"}
                     /\ req.json.destinations[i].point.latitude = ds[i][1]
                     /\ req.json.destinations[i].point.longitude = ds[i][2]
               /\ DOMAIN req.params = OptionFields \cup {"key"}
               /\ req.params["key"] = run.args.api_key
               /\ req.query = req.params

C6_Witness ==
    /\ Invoked("matrix_routing")
    /\ Len(run.args.origins) = MaxPoints
    /\ Len(run.args.destinations) = 2
    /\ run.args.origins[1] # run.args.destinations[1]

\* C7: the parameters built by calculate_route, by batch_routing (for every
\* item) and by matrix_routing have the five option fields and the key: a field
\* present in the input keeps its value, a missing one takes its default
\* (summaryOnly, all, fastest, true, unpavedRoads).
C7_MissingOptionsTakeDefaults ==
    LET want == Completed(run.args.route_params, run.args.api_key)
    IN  /\ Invoked("calculate_route") => run.http[1].params = want
        /\ Invoked("matrix_routing") => run.http[1].params = want
        /\ Invoked("batch_routing")
              => \A i \in 1..Len(run.args.routes) :
                    run.http[1].data.batchItems[i].params = want

C7_Witness ==
    /\ Invoked("calculate_route")
    /\ DOMAIN run.args.route_params = {"routeType", "avoid"}
    /\ run.args.route_params["avoid"] = ""

\* C8: the 'avoid' parameter of a request built from the sidebar selection is
\* the selected reasons joined by ',' in selection order; for the empty
\* selection it is the empty string, present in the parameters.
C8_AvoidIsCommaJoined ==
    LET want == CommaJoined(avoid, Len(avoid))
    IN  /\ (Invoked("calculate_route") \/ Invoked("matrix_routing"))
              => /\ "avoid" \in DOMAIN run.http[1].params
                 /\ run.http[1].params["avoid"] = want
                 /\ "avoid" \in DOMAIN run.http[1].query
                 /\ run.http[1].query["avoid"] = want
        /\ Invoked("batch_routing")
              => \A i \in 1..num_routes :
                    /\ "avoid" \in DOMAIN run.http[1].data.batchItems[i].params
                    /\ run.http[1].data.batchItems[i].params["avoid"] = want

C8_Witness ==
    /\ Invoked("calculate_route")
    /\ avoid = <<"motorways", "tollRoads">>

\* C9: when the HTTP call fails at network level it is not attempted again, the
\* failure reaches the builder's caller as it was raised, and the builder
\* returns no value.
C9_TransportFailurePropagates ==
    (run.invoked # <<>> /\ run.response # <<>> /\ run.response[1].kind = "fail")
        => /\ Len(run.http) = 1
           /\ Len(run.response) = 1
           /\ run.outcome = "raised"
           /\ run.exc = run.response[1].exc
           /\ run.ret = <<>>
           /\ run.errors = <<>>

C9_Witness ==
    /\ Invoked("batch_routing")
    /\ run.response = <<[kind |-> "fail", exc |-> "ConnectionError"]>>

BuilderOf ==
    [b \in {"Calculate Single Route", "Calculate Reachable Range",
            "Calculate Batch Routes", "Calculate Matrix Routing"} |->
        CASE b = "Calculate Single Route" -> "calculate_route"
          [] b = "Calculate Reachable Range" -> "calculate_reachable_range"
          [] b = "Calculate Batch Routes" -> "batch_routing"
          [] b = "Calculate Matrix Routing" -> "matrix_routing"]

====
